---- MODULE Spec2Model ----
(***************************************************************************)
(* The audio classification pipeline of src/audio_processor.py:            *)
(* AdvancedAudioProcessor (noise gate, band-energy ratio, spectral         *)
(* centroid, onset strength, decision fusion, debouncer) and               *)
(* SimplifiedAudioProcessor (band-energy ratio and a 3-frame history).     *)
(* With them: the operations a consumer calls on a processor (is_loud,     *)
(* set_sensitivity, get_debug_info) and the life of the capture stream in  *)
(* main() and NoisyBird.play() of src/devanshmain_optimized.py.            *)
(*                                                                         *)
(* Numbers.  TLC has integers only, so every real quantity is kept as an   *)
(* exact integer or an exact fraction [num, den]:                          *)
(*   - a frame is given by its spectrum: the amplitude of the sinusoid it  *)
(*     carries at each of a few rfft bins (Bins), in amplitude units;      *)
(*   - |rfft| at bin i is amplitude * blocksize/2; magnitudes are kept in  *)
(*     units of blocksize/2, which cancels in both ratios that use them;   *)
(*   - mean(frame ** 2) is SumSq/2 amplitude units squared; rms is kept in *)
(*     units of 1/(RmsScale*sqrt(2)) amplitude units, rounded down to that *)
(*     resolution (exact for every frame whose SumSq is a perfect square); *)
(*     the gate and the rms check compare rms with 1.5 * a percentile of   *)
(*     rms values, so the common unit cancels;                             *)
(*   - sum(frame ** 2) is kept in units of the code's epsilon 1e-10: one   *)
(*     squared amplitude unit of energy is EnergyUnit epsilons;            *)
(*   - np.percentile(h, q) is kept times PercentileScale.                  *)
(***************************************************************************)
EXTENDS Integers, Sequences, FiniteSets

VARIABLES
    use_advanced_audio,    \* NoisyBird.__init__: which processor is constructed
    audio_buffer,          \* deque(maxlen=4) of frames
    noise_floor_history,   \* deque(maxlen=100) of rms values
    centroid_history,      \* deque(maxlen=10) of centroids (fractions, Hz)
    onset_history,         \* deque(maxlen=8) of onset strengths (fractions)
    loud_counter,          \* debounce counter
    loud,                  \* the debounced result, read by is_loud()
    sensitivity,           \* in hundredths
    freq_threshold,        \* in ten-thousandths
    onset_threshold,       \* in hundredths
    s_history,             \* SimplifiedAudioProcessor.history, deque(maxlen=3)
    s_loud,                \* SimplifiedAudioProcessor.loud
    last,                  \* locals of the last callback at its return
    run,                   \* raw decisions of the classified frames since the
                           \* counter was last reset (construction, gate, zero energy)
    delivered,             \* callbacks made by the capture stream so far
    probe,                 \* the last direct call of a method of the
                           \* processor, if any: its arguments and result
    stream,                \* self.stream and the state of the capture stream
    pc,                    \* where the application is in main() and play()
    stale_ops,             \* stop() and close() calls the program made on a
                           \* capture stream that was already closed
    state,                 \* NoisyBird.state, a GameState
    session_manager,       \* NoisyBird.session_manager, a GameSessionManager
    attempts_input,        \* NoisyBird.attempts_input
    username_input,        \* NoisyBird.username_input
    selected_difficulty_index, \* NoisyBird.selected_difficulty_index
    score_value,           \* NoisyBird.score.value
    game_over_timer        \* NoisyBird.game_over_timer

advVars == <<audio_buffer, noise_floor_history, centroid_history, onset_history,
             loud_counter, loud>>
cfgVars == <<sensitivity, freq_threshold, onset_threshold>>
simpleVars == <<s_history, s_loud>>
gameVars == <<state, session_manager, attempts_input, username_input,
              selected_difficulty_index, score_value, game_over_timer>>
appVars == <<stream, pc, stale_ops, gameVars>>
vars == <<use_advanced_audio, advVars, cfgVars, simpleVars, last, run, delivered, probe, appVars>>

----------------------------------------------------------------------------
(* Bounds of the model *)

\* frames delivered in one stream of Spec
MaxFrames == 5
\* frames delivered in one stream of SpecOnset
MaxProbeFrames == 3
\* frames delivered in one stream of SpecLong
MaxFramesLong == 103
\* frames of a long stream that may differ from the sustained sound
MaxLead == 3
\* frames of a crescendo
MaxRamp == 10
\* rms resolution: rms values are multiples of 1/RmsScale
RmsScale == 100
\* epsilons (1e-10) per squared amplitude unit of frame energy
EnergyUnit == 1000
\* frames delivered in one stream of SpecConfig
MaxConfigFrames == 2
\* frames delivered in one run of the application (SpecRun)
MaxRunFrames == 3
\* frames delivered in one stream of SpecRace
MaxRaceFrames == 3
\* largest score calculate_difficulty_params is called with
MaxScore == 40
\* iterations of the loop of move_to_next_player that are followed
MaxLoopSteps == 8
\* players added to one session through the methods of GameSessionManager
MaxPlayers == 3
\* largest max_attempts given to start_new_session directly
MaxSessionAttempts == 2
\* largest score of one attempt of the game
MaxGameScore == 1
\* characters typed into the username field
MaxNameLen == 1
\* frames counted by game_over_timer
MaxGameOverTimer == 42

----------------------------------------------------------------------------
(* Program constants *)

samplerate == 44100
blocksize == 2048
freq_min == 500
freq_max == 4000
loud_threshold == 2
AudioBufferMaxlen == 4
CentroidMaxlen == 10
OnsetMaxlen == 8
NoiseFloorMaxlen == 100
HistoryMaxlen == 3
\* 1e-10, in the unit of frame energy
Epsilon == 1
\* np.percentile values are kept times PercentileScale
PercentileScale == 100

----------------------------------------------------------------------------
(* Frames *)

\* The rfft bins a frame of the model may carry a sinusoid at; bin i is at
\* i * samplerate / blocksize Hz: about 108, 603, 2003 and 6460 Hz.  A frame
\* is the tuple of its amplitudes at these bins.
Bins == <<5, 28, 93, 300>>
NBins == Len(Bins)

Silence == <<0, 0, 0, 0>>      \* all-zero samples
Ambient == <<2, 0, 0, 0>>      \* quiet low rumble
Murmur  == <<0, 3, 0, 0>>      \* quiet 603 Hz tone, 1.5 times the ambient rms
Chord   == <<3, 1, 1, 1>>      \* broadband, three times the ambient energy
Voice   == <<0, 0, 20, 0>>     \* loud 2 kHz tone
Rumble  == <<20, 0, 0, 0>>     \* loud 108 Hz tone
Hum     == <<0, 20, 0, 0>>     \* loud 603 Hz tone

Frames == {Silence, Ambient, Murmur, Chord, Voice, Rumble, Hum}

\* np.sum(w * f) over the bins 1..n of the model
RECURSIVE SumOver(_, _, _)
SumOver(w, f, n) ==
    IF n = 0 THEN 0 ELSE w[n] * f[n] + SumOver(w, f, n - 1)

Ones == [k \in 1..NBins |-> 1]
Sq(f) == [k \in 1..NBins |-> f[k] * f[k]]

\* sum(frame ** 2) in squared amplitude units times blocksize/2
SumSq(frame) == SumOver(frame, frame, NBins)

\* floor of the square root
RECURSIVE ISqrt(_)
ISqrt(n) ==
    IF n < 2 THEN n
    ELSE LET small == 2 * ISqrt(n \div 4)
             large == small + 1
         IN  IF large * large > n THEN small ELSE large

\* np.sqrt(np.mean(current_frame ** 2)), in rms units
Rms(frame) == ISqrt(RmsScale * RmsScale * SumSq(frame))

\* np.sum(frame ** 2), in epsilons
Energy(frame) == EnergyUnit * SumSq(frame)

\* np.abs(np.fft.rfft(current_frame)), in units of blocksize/2
Magnitude(frame) == [k \in 1..NBins |-> frame[k]]

----------------------------------------------------------------------------
(* Helpers *)

Zero == [num |-> 0, den |-> 1]

\* an append that drops the newest element of a full deque
DequeAppendDroppingNewest(q, x, maxlen) ==
    IF Len(q) >= maxlen THEN SubSeq(q, 1, Len(q) - 1) \o <<x>> ELSE Append(q, x)

\* deque(maxlen=n).append(x)
DequeAppend(q, x, maxlen) ==
    IF Len(q) >= maxlen THEN Tail(q) \o <<x>> ELSE Append(q, x)

\* the k-th smallest element of h (k = 0 is the minimum)
Kth(h, k) ==
    CHOOSE v \in {h[i] : i \in DOMAIN h} :
        /\ Cardinality({i \in DOMAIN h : h[i] < v}) <= k
        /\ Cardinality({i \in DOMAIN h : h[i] <= v}) > k

\* np.mean(h) times PercentileScale, rounded down
RECURSIVE SumSeq(_)
SumSeq(h) == IF h = <<>> THEN 0 ELSE Head(h) + SumSeq(Tail(h))
PercentileAsMean(h, q) == (PercentileScale * SumSeq(h)) \div Len(h)

\* np.percentile(h, q) times PercentileScale: linear interpolation at the
\* virtual index q/100 * (len(h) - 1) of the sorted values
Percentile(h, q) ==
    LET pos == q * (Len(h) - 1)
        lo  == pos \div 100
        g   == pos % 100
    IN  IF g = 0 THEN PercentileScale * Kth(h, lo)
        ELSE (PercentileScale - g) * Kth(h, lo) + g * Kth(h, lo + 1)

----------------------------------------------------------------------------
(* AdvancedAudioProcessor *)

\* _setup_frequency_bands: the bins with freq_min <= freq <= freq_max
freq_band_mask ==
    [k \in 1..NBins |->
        IF Bins[k] * samplerate >= freq_min * blocksize
           /\ Bins[k] * samplerate <= freq_max * blocksize THEN 1 ELSE 0]

\* _calculate_spectral_centroid, in Hz
CalculateSpectralCentroid(magnitude) ==
    IF SumOver(Ones, magnitude, NBins) = 0 THEN Zero
    ELSE [num |-> samplerate * SumOver(Bins, magnitude, NBins),
          den |-> blocksize * SumOver(Ones, magnitude, NBins)]

\* _calculate_onset_strength comparing with the oldest buffered frame
CalculateOnsetStrengthOldest(buf, frame) ==
    IF Len(buf) < 2 THEN Zero
    ELSE LET current_energy == Energy(frame)
             prev_energy == Energy(buf[1])
         IN  IF prev_energy = 0 THEN Zero
             ELSE [num |-> current_energy, den |-> prev_energy + Epsilon]

\* _calculate_onset_strength comparing with the frame before the previous
\* one, when the buffer holds it
CalculateOnsetStrengthBeforePrevious(buf, frame) ==
    IF Len(buf) < 2 THEN Zero
    ELSE LET current_energy == Energy(frame)
             prev_frame == buf[IF Len(buf) > 2 THEN Len(buf) - 2 ELSE 1]
             prev_energy == Energy(prev_frame)
         IN  IF prev_energy = 0 THEN Zero
             ELSE [num |-> current_energy, den |-> prev_energy + Epsilon]

\* _calculate_onset_strength, called after the frame was appended to buf
CalculateOnsetStrength(buf, frame) ==
    IF Len(buf) < 2 THEN Zero
    ELSE LET current_energy == Energy(frame)
             prev_frame == buf[Len(buf) - 1]
             prev_energy == Energy(prev_frame)
         IN  IF prev_energy = 0 THEN Zero
             ELSE [num |-> current_energy, den |-> prev_energy + Epsilon]

\* the rms check with a margin of 2 instead of 1.5
RmsCheckDoubleMargin(rms, noise_floor) == PercentileScale * rms > 2 * noise_floor

\* the four sub-checks of _make_decision
RmsCheck(rms, noise_floor) == 2 * PercentileScale * rms > 3 * noise_floor
FreqCheck(band_ratio) == 100 * band_ratio.num > 35 * band_ratio.den
CentroidCheck(centroid) ==
    centroid.num > 800 * centroid.den /\ centroid.num < 5000 * centroid.den
OnsetCheck(onset_strength, threshold) ==
    100 * onset_strength.num > threshold * onset_strength.den

BoolToInt(b) == IF b THEN 1 ELSE 0

\* _make_decision without its onset-and-frequency fast path
MakeDecisionMajorityOnly(rms, noise_floor, band_ratio, centroid, onset_strength, threshold) ==
    BoolToInt(RmsCheck(rms, noise_floor)) + BoolToInt(FreqCheck(band_ratio))
    + BoolToInt(CentroidCheck(centroid))
    + BoolToInt(OnsetCheck(onset_strength, threshold)) >= 3

\* _make_decision accepting two passed checks
MakeDecisionTwoOfFour(rms, noise_floor, band_ratio, centroid, onset_strength, threshold) ==
    \/ OnsetCheck(onset_strength, threshold) /\ FreqCheck(band_ratio)
    \/ BoolToInt(RmsCheck(rms, noise_floor)) + BoolToInt(FreqCheck(band_ratio))
       + BoolToInt(CentroidCheck(centroid))
       + BoolToInt(OnsetCheck(onset_strength, threshold)) >= 2

\* _make_decision
MakeDecision(rms, noise_floor, band_ratio, centroid, onset_strength, threshold) ==
    LET rms_check == RmsCheck(rms, noise_floor)
        freq_check == FreqCheck(band_ratio)
        centroid_check == CentroidCheck(centroid)
        onset_check == OnsetCheck(onset_strength, threshold)
        checks_passed == BoolToInt(rms_check) + BoolToInt(freq_check)
                         + BoolToInt(centroid_check) + BoolToInt(onset_check)
    IN  IF onset_check /\ freq_check THEN TRUE
        ELSE IF checks_passed >= 3 THEN TRUE
        ELSE FALSE

\* the noise gate without its margin: rms < noise_floor
NoiseGateAtFloor(rms, noise_floor) == PercentileScale * rms < noise_floor

\* the noise gate of _process_audio: rms < noise_floor * 1.5
NoiseGate(rms, noise_floor) == 2 * PercentileScale * rms < 3 * noise_floor

\* max(a, b)
Max(a, b) == IF a >= b THEN a ELSE b

\* min(a, b)
Min(a, b) == IF a <= b THEN a ELSE b

\* set_sensitivity storing its argument as it is
SetSensitivityUnclamped(s) ==
    [sensitivity |-> s,
     freq_threshold |-> 200 - (80 * s) \div 100,
     onset_threshold |-> 200 - (50 * s) \div 100]

\* set_sensitivity: the three scalars it assigns.  The argument is in
\* hundredths and a multiple of 10, so that both products are exact.
SetSensitivity(s) ==
    LET clamped == Max(0, Min(100, s))
    IN  [sensitivity |-> clamped,
         freq_threshold |-> 200 - (80 * clamped) \div 100,
         onset_threshold |-> 200 - (50 * clamped) \div 100]

\* the debounce step with a false decision clearing the counter
DebounceClearing(counter, is_loud) ==
    LET c == IF is_loud THEN counter + 1 ELSE 0
    IN  [loud_counter |-> c, loud |-> (c >= loud_threshold)]

\* the debounce step with the result taken from the counter before the update
DebounceStale(counter, is_loud) ==
    LET c == IF is_loud THEN counter + 1 ELSE Max(0, counter - 1)
    IN  [loud_counter |-> c, loud |-> (counter >= loud_threshold)]

\* the debounce step of _process_audio: the counter and the result it leaves
Debounce(counter, is_loud) ==
    LET c == IF is_loud THEN counter + 1 ELSE Max(0, counter - 1)
    IN  [loud_counter |-> c, loud |-> (c >= loud_threshold)]

\* a rejected frame that leaves the counter alone
RejectKeepingCounter(counter) == [loud_counter |-> counter, loud |-> FALSE]

\* a rejected frame handled as a false decision
RejectAsFalseDecision(counter) ==
    LET c == Max(0, counter - 1)
    IN  [loud_counter |-> c, loud |-> (c >= loud_threshold)]

\* what the noise gate and the zero-energy return leave behind
Reject(counter) == [loud_counter |-> 0, loud |-> FALSE]

\* the noise floor taken before the rms of the frame is appended
NoiseFloorBeforeAppend(history, rms) ==
    IF history = <<>> THEN 0 ELSE Percentile(history, 10)

\* the noise floor of a frame: its rms is appended, then the percentile taken
NoiseFloor(history, rms) ==
    Percentile(DequeAppend(history, rms, NoiseFloorMaxlen), 10)

NoLocals ==
    [path |-> "none", counter_in |-> 0, rms |-> 0, noise_floor |-> 0,
     band_ratio |-> Zero, centroid |-> Zero, onset_strength |-> Zero,
     is_loud |-> FALSE, status |-> FALSE, raised |-> FALSE,
     indata |-> Silence, returned |-> TRUE]

NoArgs == <<>>

NoProbe ==
    [called |-> FALSE, op |-> "none", value |-> Zero, args |-> NoArgs,
     reads |-> {}, writes |-> {}]

\* _audio_callback followed by _process_audio
AudioCallback(indata, status) ==
    LET buf == DequeAppend(audio_buffer, indata, AudioBufferMaxlen)
        current_frame == buf[Len(buf)]
        rms == Rms(current_frame)
        nfh == DequeAppend(noise_floor_history, rms, NoiseFloorMaxlen)
        noise_floor == NoiseFloor(noise_floor_history, rms)
        magnitude == Magnitude(current_frame)
        target_band_energy == SumOver(freq_band_mask, Sq(magnitude), NBins)
        total_energy == SumOver(Ones, Sq(magnitude), NBins)
        band_ratio == [num |-> target_band_energy, den |-> total_energy]
        centroid == CalculateSpectralCentroid(magnitude)
        onset_strength == CalculateOnsetStrength(buf, current_frame)
        is_loud == MakeDecision(rms, noise_floor, band_ratio, centroid,
                                onset_strength, onset_threshold)
        debounced == Debounce(loud_counter, is_loud)
        rejected == Reject(loud_counter)
        seen == [NoLocals EXCEPT !.counter_in = loud_counter, !.rms = rms,
                                 !.noise_floor = noise_floor,
                                 !.status = status, !.indata = indata]
    IN  /\ audio_buffer' = buf
        /\ noise_floor_history' = nfh
        /\ IF NoiseGate(rms, noise_floor)
           THEN /\ loud_counter' = rejected.loud_counter
                /\ loud' = rejected.loud
                /\ UNCHANGED <<centroid_history, onset_history>>
                /\ last' = [seen EXCEPT !.path = "gated"]
                /\ run' = <<>>
           ELSE IF total_energy = 0
           THEN /\ loud_counter' = rejected.loud_counter
                /\ loud' = rejected.loud
                /\ UNCHANGED <<centroid_history, onset_history>>
                /\ last' = [seen EXCEPT !.path = "zero"]
                /\ run' = <<>>
           ELSE /\ centroid_history' =
                       DequeAppend(centroid_history, centroid, CentroidMaxlen)
                /\ onset_history' =
                       DequeAppend(onset_history, onset_strength, OnsetMaxlen)
                /\ loud_counter' = debounced.loud_counter
                /\ loud' = debounced.loud
                /\ last' = [seen EXCEPT !.path = "decided",
                                        !.band_ratio = band_ratio,
                                        !.centroid = centroid,
                                        !.onset_strength = onset_strength,
                                        !.is_loud = is_loud]
                /\ run' = Append(run, is_loud)
        /\ delivered' = delivered + 1
        /\ probe' = NoProbe
        /\ UNCHANGED <<use_advanced_audio, cfgVars, simpleVars, appVars>>

----------------------------------------------------------------------------
(* SimplifiedAudioProcessor *)

\* sum(self.history)
RECURSIVE CountTrue(_)
CountTrue(h) ==
    IF h = <<>> THEN 0 ELSE BoolToInt(Head(h)) + CountTrue(Tail(h))

\* the classification of _callback: band-energy ratio > 0.3
SimplifiedIsLoud(frame) ==
    LET magnitude == Magnitude(frame)
        band_energy == SumOver(freq_band_mask, Sq(magnitude), NBins)
        total_energy == SumOver(Ones, Sq(magnitude), NBins)
    IN  IF total_energy = 0 THEN FALSE
        ELSE 10 * band_energy > 3 * total_energy

\* SimplifiedAudioProcessor._callback
SimplifiedCallback(indata, status) ==
    /\ IF status
       THEN /\ UNCHANGED simpleVars
            /\ last' = [NoLocals EXCEPT !.path = "skipped", !.status = TRUE]
       ELSE LET is_loud == SimplifiedIsLoud(indata)
                history == DequeAppend(s_history, is_loud, HistoryMaxlen)
            IN  /\ s_history' = history
                /\ s_loud' = (CountTrue(history) >= 2)
                /\ last' = [NoLocals EXCEPT !.path = "classified",
                                            !.is_loud = is_loud]
    /\ delivered' = delivered + 1
    /\ UNCHANGED <<use_advanced_audio, advVars, cfgVars, run, probe, appVars>>

----------------------------------------------------------------------------
(* PlayerSession and GameSessionManager (devanshmain_optimized.py; main.py *)
(* has the same code)                                                     *)

\* PlayerSession.__init__
PlayerSession(username, max_attempts) ==
    [username |-> username, max_attempts |-> max_attempts,
     current_attempt |-> 0, scores |-> <<>>, best_score |-> 0,
     difficulty |-> "MEDIUM", is_complete |-> FALSE]

\* record_score that leaves best_score as it was
RecordScoreKeepingBest(player, value) ==
    LET current_attempt == player.current_attempt + 1
    IN  [player EXCEPT !.scores = Append(@, value),
                       !.current_attempt = current_attempt,
                       !.is_complete = IF current_attempt >= player.max_attempts
                                       THEN TRUE ELSE @]

\* PlayerSession.record_score
RecordScore(player, value) ==
    LET current_attempt == player.current_attempt + 1
    IN  [player EXCEPT !.scores = Append(@, value),
                       !.current_attempt = current_attempt,
                       !.best_score = Max(@, value),
                       !.is_complete = IF current_attempt >= player.max_attempts
                                       THEN TRUE ELSE @]

\* PlayerSession.get_remaining_attempts
GetRemainingAttempts(player) == player.max_attempts - player.current_attempt

\* GameSessionManager.__init__
GameSessionManager ==
    [players |-> <<>>, current_player_index |-> 0,
     max_attempts_per_player |-> 3, session_active |-> FALSE]

\* GameSessionManager.start_new_session
StartNewSession(manager, max_attempts) ==
    [manager EXCEPT !.players = <<>>, !.current_player_index = 0,
                    !.max_attempts_per_player = max_attempts,
                    !.session_active = TRUE]

\* GameSessionManager.add_player
AddPlayer(manager, username) ==
    [manager EXCEPT !.players =
        Append(@, PlayerSession(username, manager.max_attempts_per_player))]

\* GameSessionManager.get_current_player, for a manager that has players
\* (the method returns None when it has none); indices count from 0
GetCurrentPlayer(manager) == manager.players[manager.current_player_index + 1]

\* all(p.is_complete for p in self.players)
AllComplete(players) == \A i \in 1..Len(players) : players[i].is_complete

\* GameSessionManager.all_players_finished
AllPlayersFinished(manager) ==
    IF manager.players # <<>> THEN AllComplete(manager.players) ELSE FALSE

\* the "while True" loop of move_to_next_player from its iteration number
\* steps + 1 on; returned is FALSE if the loop is still running after
\* MaxLoopSteps iterations
RECURSIVE WhileTrue(_, _, _)
WhileTrue(manager, start_idx, steps) ==
    IF steps >= MaxLoopSteps
    THEN [manager |-> manager, returned |-> FALSE, value |-> FALSE,
          steps |-> steps]
    ELSE LET current_player_index ==
                 (manager.current_player_index + 1) % Len(manager.players)
             moved == [manager EXCEPT
                          !.current_player_index = current_player_index]
         IN  IF current_player_index = start_idx /\ AllComplete(moved.players)
             THEN [manager |-> [moved EXCEPT !.session_active = FALSE],
                   returned |-> TRUE, value |-> FALSE, steps |-> steps + 1]
             ELSE IF ~moved.players[current_player_index + 1].is_complete
             THEN [manager |-> moved, returned |-> TRUE, value |-> TRUE,
                   steps |-> steps + 1]
             ELSE WhileTrue(moved, start_idx, steps + 1)

\* move_to_next_player that leaves session_active as it was
MoveToNextPlayerKeepingSession(manager) ==
    IF manager.players = <<>>
    THEN [manager |-> manager, returned |-> TRUE, value |-> FALSE, steps |-> 0]
    ELSE IF ~GetCurrentPlayer(manager).is_complete
    THEN [manager |-> manager, returned |-> TRUE, value |-> TRUE, steps |-> 0]
    ELSE LET result == WhileTrue(manager, manager.current_player_index, 0)
         IN  [result EXCEPT !.manager.session_active = manager.session_active]

\* GameSessionManager.move_to_next_player: the manager it leaves, whether it
\* returned, what it returned and how many loop iterations it made
MoveToNextPlayer(manager) ==
    IF manager.players = <<>>
    THEN [manager |-> manager, returned |-> TRUE, value |-> FALSE, steps |-> 0]
    ELSE IF ~GetCurrentPlayer(manager).is_complete
    THEN [manager |-> manager, returned |-> TRUE, value |-> TRUE, steps |-> 0]
    ELSE WhileTrue(manager, manager.current_player_index, 0)

----------------------------------------------------------------------------
(* Specifications *)

\* AdvancedAudioProcessor.__init__ with sensitivity=s (in hundredths) and
\* SimplifiedAudioProcessor.__init__, before start()
Construct(s) ==
    /\ audio_buffer = <<>>
    /\ noise_floor_history = <<>>
    /\ centroid_history = <<>>
    /\ onset_history = <<>>
    /\ loud_counter = 0
    /\ loud = FALSE
    /\ sensitivity = s
    /\ freq_threshold = 150
    /\ onset_threshold = 150
    /\ s_history = <<>>
    /\ s_loud = FALSE
    /\ last = NoLocals
    /\ run = <<>>
    /\ delivered = 0
    /\ probe = NoProbe
    /\ stream = "none"
    /\ pc = "init"
    /\ stale_ops = 0
    /\ state = "SPLASH_SCREEN"
    /\ session_manager = GameSessionManager
    /\ attempts_input = <<>>
    /\ username_input = <<>>
    /\ selected_difficulty_index = 1
    /\ score_value = 0
    /\ game_over_timer = 0

\* NoisyBird.__init__ with either value of use_advanced_audio; the
\* AdvancedAudioProcessor is given sensitivity=0.6
Init == use_advanced_audio \in BOOLEAN /\ Construct(60)

\* the capture callback of an AdvancedAudioProcessor, for a stream of at
\* most MaxFrames frames
Frame ==
    /\ use_advanced_audio
    /\ delivered < MaxFrames
    /\ \E indata \in Frames, status \in BOOLEAN : AudioCallback(indata, status)

\* the capture callback of a SimplifiedAudioProcessor
SimplifiedFrame ==
    /\ ~use_advanced_audio
    /\ delivered < MaxFrames
    /\ \E indata \in Frames, status \in BOOLEAN :
          SimplifiedCallback(indata, status)

Next == Frame \/ SimplifiedFrame

Spec == Init /\ [][Next]_vars

\* the sounds of a long stream, in the order they may follow each other
Phase(frame) == CASE frame = Ambient -> 0 [] frame = Hum -> 1 [] OTHER -> 2

\* A long stream: at most MaxLead frames of ambient noise, then hum, and
\* from then on the sustained Voice, at most MaxFramesLong frames in all.
LongFrame ==
    /\ use_advanced_audio
    /\ delivered < MaxFramesLong
    /\ \E indata \in {Ambient, Hum, Voice}, status \in BOOLEAN :
          /\ indata # Voice => delivered < MaxLead
          /\ audio_buffer # <<>> =>
                /\ audio_buffer[Len(audio_buffer)] \in {Ambient, Hum, Voice}
                /\ Phase(indata) >= Phase(audio_buffer[Len(audio_buffer)])
          /\ AudioCallback(indata, status)

\* a 2 kHz tone of amplitude k
Tone(k) == <<0, 0, k, 0>>

\* A crescendo: the k-th frame of the stream is a tone of amplitude k, for at
\* most MaxRamp frames.
RampFrame ==
    /\ use_advanced_audio
    /\ delivered < MaxRamp
    /\ audio_buffer # <<>> => audio_buffer[Len(audio_buffer)] = Tone(delivered)
    /\ \E status \in BOOLEAN : AudioCallback(Tone(delivered + 1), status)

NextLong == LongFrame \/ RampFrame \/ SimplifiedFrame

SpecLong == Init /\ [][NextLong]_vars

\* the capture callback, for a stream of at most MaxProbeFrames frames
ShortFrame ==
    /\ use_advanced_audio
    /\ delivered < MaxProbeFrames
    /\ \E indata \in Frames, status \in BOOLEAN : AudioCallback(indata, status)

\* a direct call of _calculate_onset_strength on the newest frame, between
\* two callbacks
ProbeOnset ==
    /\ use_advanced_audio
    /\ audio_buffer # <<>>
    /\ probe' = [called |-> TRUE, op |-> "_calculate_onset_strength",
                 value |-> CalculateOnsetStrength(
                               audio_buffer, audio_buffer[Len(audio_buffer)]),
                 args |-> NoArgs,
                 reads |-> {"audio_buffer"}, writes |-> {}]
    /\ UNCHANGED <<use_advanced_audio, advVars, cfgVars, simpleVars, last, run,
                   delivered, appVars>>

NextOnset == ShortFrame \/ ProbeOnset

SpecOnset == Init /\ [][NextOnset]_vars

\* the band energy ratio _process_audio computes for a frame
BandRatio(frame) ==
    [num |-> SumOver(freq_band_mask, Sq(Magnitude(frame)), NBins),
     den |-> SumOver(Ones, Sq(Magnitude(frame)), NBins)]

\* Feature values _make_decision is called with: those of the frames, and
\* values at and next to each threshold.
RmsValues == {Rms(f) : f \in Frames}
NoiseFloorValues == {PercentileScale * r : r \in RmsValues}
BandRatioValues ==
    {BandRatio(f) : f \in Frames \ {Silence}}
        \cup {[num |-> 35, den |-> 100], [num |-> 36, den |-> 100]}
CentroidValues ==
    {CalculateSpectralCentroid(Magnitude(f)) : f \in Frames}
        \cup {[num |-> c, den |-> 1] : c \in {800, 801, 4999, 5000}}
OnsetValues ==
    {Zero, [num |-> 3, den |-> 2], [num |-> 151, den |-> 100],
     [num |-> 3, den |-> 1]}

\* A direct call of _make_decision, one for each behaviour: the method keeps
\* nothing between two calls.
ProbeDecision ==
    /\ use_advanced_audio
    /\ ~probe.called
    /\ \E rms \in RmsValues, noise_floor \in NoiseFloorValues,
          band_ratio \in BandRatioValues, centroid \in CentroidValues,
          onset_strength \in OnsetValues :
          probe' = [called |-> TRUE, op |-> "_make_decision",
                    value |-> MakeDecision(rms, noise_floor, band_ratio,
                                           centroid, onset_strength,
                                           onset_threshold),
                    args |-> [rms |-> rms, noise_floor |-> noise_floor,
                              band_ratio |-> band_ratio,
                              centroid |-> centroid,
                              onset_strength |-> onset_strength],
                    reads |-> {"onset_threshold"}, writes |-> {}]
    /\ UNCHANGED <<use_advanced_audio, advVars, cfgVars, simpleVars, last, run,
                   delivered, appVars>>

NextDecision == ProbeDecision

SpecDecision == Init /\ [][NextDecision]_vars

\* arguments of set_sensitivity and of the constructor, in hundredths: below,
\* at the ends of, inside and above [0, 1]
SensitivityArgs == {-50, 0, 20, 50, 60, 100, 150}

\* a call of a method by the consumer: what it was given, what it returned,
\* and the attributes of the processor its code reads and assigns
Call(op, args, value, reads, writes) ==
    [called |-> TRUE, op |-> op, value |-> value, args |-> args,
     reads |-> reads, writes |-> writes]

\* set_sensitivity(s), called by the consumer between two callbacks
SetSensitivityCall ==
    /\ use_advanced_audio
    /\ \E s \in SensitivityArgs :
          LET assigned == SetSensitivity(s)
          IN  /\ sensitivity' = assigned.sensitivity
              /\ freq_threshold' = assigned.freq_threshold
              /\ onset_threshold' = assigned.onset_threshold
              /\ probe' = Call("set_sensitivity", [sensitivity |-> s], Zero,
                               {"sensitivity"},
                               {"sensitivity", "freq_threshold",
                                "onset_threshold"})
    /\ UNCHANGED <<use_advanced_audio, advVars, simpleVars, last, run,
                   delivered, appVars>>

\* is_loud() of either processor
IsLoudCall ==
    /\ probe' = Call("is_loud", NoArgs,
                     IF use_advanced_audio THEN loud ELSE s_loud,
                     {"loud"}, {})
    /\ UNCHANGED <<use_advanced_audio, advVars, cfgVars, simpleVars, last, run,
                   delivered, appVars>>

\* a list that is the object d itself
ListSharing(d) == [shared |-> TRUE, items |-> d]

\* list(d): a new list with the items of d
ListOf(d) == [shared |-> FALSE, items |-> d]

\* np.mean(list(h)) if h else 0
MeanOrZero(h) ==
    IF h = <<>> THEN Zero ELSE [num |-> SumSeq(h), den |-> Len(h)]

\* get_debug_info()
GetDebugInfoCall ==
    /\ use_advanced_audio
    /\ probe' = Call("get_debug_info", NoArgs,
                     [is_loud |-> loud,
                      loud_counter |-> loud_counter,
                      noise_floor |-> MeanOrZero(noise_floor_history),
                      centroid_history |-> ListOf(centroid_history),
                      onset_history |-> ListOf(onset_history)],
                     {"loud", "loud_counter", "noise_floor_history",
                      "centroid_history", "onset_history"}, {})
    /\ UNCHANGED <<use_advanced_audio, advVars, cfgVars, simpleVars, last, run,
                   delivered, appVars>>

\* The caller of get_debug_info() clears both lists of the snapshot it was
\* given; a list shared with the processor is cleared there as well.
MutateSnapshot ==
    /\ probe.op = "get_debug_info"
    /\ probe' = [probe EXCEPT !.op = "snapshot cleared",
                              !.value.centroid_history.items = <<>>,
                              !.value.onset_history.items = <<>>]
    /\ centroid_history' =
          IF probe.value.centroid_history.shared THEN <<>>
          ELSE centroid_history
    /\ onset_history' =
          IF probe.value.onset_history.shared THEN <<>> ELSE onset_history
    /\ UNCHANGED <<use_advanced_audio, audio_buffer, noise_floor_history,
                   loud_counter, loud, cfgVars, simpleVars, last, run,
                   delivered, appVars>>

\* the capture callback, for a stream of at most MaxConfigFrames frames
ConfigFrame ==
    /\ use_advanced_audio
    /\ delivered < MaxConfigFrames
    /\ \E indata \in Frames, status \in BOOLEAN : AudioCallback(indata, status)

\* AdvancedAudioProcessor(sensitivity=s) for any argument s
InitConfig ==
    /\ use_advanced_audio = TRUE
    /\ \E s \in SensitivityArgs : Construct(s)

NextConfig ==
    \/ ConfigFrame
    \/ SetSensitivityCall
    \/ IsLoudCall
    \/ GetDebugInfoCall
    \/ MutateSnapshot

SpecConfig == InitConfig /\ [][NextConfig]_vars

----------------------------------------------------------------------------
(* Difficulty scaling (devanshmain_optimized.py; main.py has the same      *)
(* code).  Speeds are in hundredths, gaps and distances in pixels.         *)

DIFFICULTY_START_SCORE == 5
BASE_GAP == 250
MIN_GAP == 140
GAP_DECREASE_RATE == 5
BASE_OBSTACLE_SPEED == 300
MAX_OBSTACLE_SPEED == 750
SPEED_INCREASE_RATE == 15
BASE_HORIZONTAL_DISTANCE == 450
MIN_HORIZONTAL_DISTANCE == 280
DISTANCE_DECREASE_RATE == 7

\* DifficultyManager.DIFFICULTIES: obstacle_speed and easy_mode of each preset
DIFFICULTIES ==
    [SLOW |-> [obstacle_speed |-> 300, easy_mode |-> TRUE],
     MEDIUM |-> [obstacle_speed |-> 500, easy_mode |-> TRUE],
     FAST |-> [obstacle_speed |-> 600, easy_mode |-> FALSE],
     GODLIKE |-> [obstacle_speed |-> 900, easy_mode |-> FALSE]]

\* calculate_difficulty_params
CalculateDifficultyParams(score, difficulty_config) ==
    IF ~difficulty_config.easy_mode
    THEN LET gap == MIN_GAP + 50
             speed == difficulty_config.obstacle_speed
             h_distance == MIN_HORIZONTAL_DISTANCE + 100
             score_above == score - DIFFICULTY_START_SCORE
         IN  IF score >= DIFFICULTY_START_SCORE
             THEN [gap |-> Max(MIN_GAP, gap - score_above * 3),
                   speed |-> Min(MAX_OBSTACLE_SPEED, speed + score_above * 10),
                   horizontal_distance |->
                       Max(MIN_HORIZONTAL_DISTANCE, h_distance - score_above * 5)]
             ELSE [gap |-> gap, speed |-> speed,
                   horizontal_distance |-> h_distance]
    ELSE IF score < DIFFICULTY_START_SCORE
    THEN [gap |-> BASE_GAP, speed |-> BASE_OBSTACLE_SPEED,
          horizontal_distance |-> BASE_HORIZONTAL_DISTANCE]
    ELSE LET score_above_threshold == score - DIFFICULTY_START_SCORE
         IN  [gap |-> Max(MIN_GAP,
                          BASE_GAP - score_above_threshold * GAP_DECREASE_RATE),
              speed |-> Min(MAX_OBSTACLE_SPEED,
                            BASE_OBSTACLE_SPEED
                            + score_above_threshold * SPEED_INCREASE_RATE),
              horizontal_distance |->
                  Max(MIN_HORIZONTAL_DISTANCE,
                      BASE_HORIZONTAL_DISTANCE
                      - score_above_threshold * DISTANCE_DECREASE_RATE)]

\* a call of calculate_difficulty_params with some score and preset
ProbeDifficulty ==
    /\ \E score \in 0..MaxScore, name \in DOMAIN DIFFICULTIES :
          probe' = Call("calculate_difficulty_params",
                        [score |-> score, difficulty |-> name],
                        CalculateDifficultyParams(score, DIFFICULTIES[name]),
                        {}, {})
    /\ UNCHANGED <<use_advanced_audio, advVars, cfgVars, simpleVars, last, run,
                   delivered, appVars>>

NextDifficulty == ProbeDifficulty

SpecDifficulty == Init /\ [][NextDifficulty]_vars

----------------------------------------------------------------------------
(* The capture callback runs on the thread of the capture stream, the      *)
(* consumer on the main thread.  Here the callback is taken in two steps,  *)
(* cut between its assignment of loud_counter and its assignment of loud,  *)
(* and a consumer call may fall between the two.                            *)

\* _audio_callback and _process_audio up to the assignment of loud_counter
\* (line 133, line 148, or line 174 or 176)
AudioCallbackToCounter(indata, status) ==
    LET buf == DequeAppend(audio_buffer, indata, AudioBufferMaxlen)
        current_frame == buf[Len(buf)]
        rms == Rms(current_frame)
        noise_floor == NoiseFloor(noise_floor_history, rms)
        magnitude == Magnitude(current_frame)
        total_energy == SumOver(Ones, Sq(magnitude), NBins)
        band_ratio == BandRatio(current_frame)
        centroid == CalculateSpectralCentroid(magnitude)
        onset_strength == CalculateOnsetStrength(buf, current_frame)
        is_loud == MakeDecision(rms, noise_floor, band_ratio, centroid,
                                onset_strength, onset_threshold)
        seen == [NoLocals EXCEPT !.counter_in = loud_counter, !.rms = rms,
                                 !.noise_floor = noise_floor,
                                 !.status = status, !.indata = indata,
                                 !.returned = FALSE]
    IN  /\ audio_buffer' = buf
        /\ noise_floor_history' =
              DequeAppend(noise_floor_history, rms, NoiseFloorMaxlen)
        /\ IF NoiseGate(rms, noise_floor) \/ total_energy = 0
           THEN /\ loud_counter' = 0
                /\ UNCHANGED <<centroid_history, onset_history>>
                /\ last' = [seen EXCEPT !.path =
                               IF NoiseGate(rms, noise_floor) THEN "gated"
                               ELSE "zero"]
                /\ run' = <<>>
           ELSE /\ centroid_history' =
                       DequeAppend(centroid_history, centroid, CentroidMaxlen)
                /\ onset_history' =
                       DequeAppend(onset_history, onset_strength, OnsetMaxlen)
                /\ loud_counter' = Debounce(loud_counter, is_loud).loud_counter
                /\ last' = [seen EXCEPT !.path = "decided",
                                        !.band_ratio = band_ratio,
                                        !.centroid = centroid,
                                        !.onset_strength = onset_strength,
                                        !.is_loud = is_loud]
                /\ run' = Append(run, is_loud)
        /\ delivered' = delivered + 1
        /\ probe' = NoProbe
        /\ UNCHANGED <<use_advanced_audio, loud, cfgVars, simpleVars, appVars>>

\* the assignment of loud that ends the callback: False on the two early
\* returns (lines 134, 149), loud_counter >= loud_threshold otherwise (179)
AudioCallbackAssignLoud ==
    /\ loud' = IF last.path \in {"gated", "zero"} THEN FALSE
               ELSE loud_counter >= loud_threshold
    /\ last' = [last EXCEPT !.returned = TRUE]
    /\ UNCHANGED <<use_advanced_audio, audio_buffer, noise_floor_history,
                   centroid_history, onset_history, loud_counter, cfgVars,
                   simpleVars, run, delivered, probe, appVars>>

\* a callback begins, the one before having returned
RaceFrameBegins ==
    /\ use_advanced_audio
    /\ last.returned
    /\ delivered < MaxRaceFrames
    /\ \E indata \in Frames, status \in BOOLEAN :
          AudioCallbackToCounter(indata, status)

\* the running callback assigns loud and returns
RaceFrameReturns ==
    /\ use_advanced_audio
    /\ ~last.returned
    /\ AudioCallbackAssignLoud

NextRace ==
    \/ RaceFrameBegins
    \/ RaceFrameReturns
    \/ GetDebugInfoCall
    \/ IsLoudCall

SpecRace == Init /\ [][NextRace]_vars

----------------------------------------------------------------------------
(* The application: main() and NoisyBird.play() of devanshmain_optimized.py *)
(* with the capture stream of the processor.  stream is "none" while       *)
(* self.stream is None; otherwise it is the state of the InputStream:      *)
(* "opened" (constructed, not started), "active", "aborted" (ended by the  *)
(* capture library after an exception left the callback) or "closed".      *)

\* stop() of either processor: on a stream that is open it stops and closes
\* it; on a closed one it makes the same two calls again
Stop ==
    /\ stream' = IF stream = "none" THEN "none" ELSE "closed"
    /\ stale_ops' = IF stream = "closed" THEN stale_ops + 2 ELSE stale_ops

\* play() calls start().  sd.InputStream(...) may raise, and so may
\* stream.start() after the stream was stored; the call is outside the try
\* of play(), so either exception goes to main(), which quits.
PlayStart ==
    /\ pc = "init"
    /\ \E outcome \in {"open fails", "start fails", "started"} :
          /\ stream' = CASE outcome = "open fails" -> "none"
                          [] outcome = "start fails" -> "opened"
                          [] OTHER -> "active"
          /\ pc' = IF outcome = "started" THEN "loop" ELSE "exited"
    /\ UNCHANGED <<use_advanced_audio, advVars, cfgVars, simpleVars, last, run,
                   delivered, probe, stale_ops, gameVars>>

\* the game loop in state PLAYING polls is_loud()
PlayPoll == pc = "loop" /\ IsLoudCall

\* pygame.QUIT: pygame.quit(), stop(), sys.exit(); the SystemExit then runs
\* the finally clause of play()
PlayQuit ==
    /\ pc = "loop"
    /\ Stop
    /\ pc' = "finally"
    /\ UNCHANGED <<use_advanced_audio, advVars, cfgVars, simpleVars, last, run,
                   delivered, probe, gameVars>>

\* an exception inside the game loop
PlayError ==
    /\ pc = "loop"
    /\ pc' = "finally"
    /\ UNCHANGED <<use_advanced_audio, advVars, cfgVars, simpleVars, last, run,
                   delivered, probe, stream, stale_ops, gameVars>>

\* the finally clause of play(): stop(); the program then exits
PlayFinally ==
    /\ pc = "finally"
    /\ Stop
    /\ pc' = "exited"
    /\ UNCHANGED <<use_advanced_audio, advVars, cfgVars, simpleVars, last, run,
                   delivered, probe, gameVars>>

\* the capture callback of the processor in use, while its stream is active
RunFrame ==
    /\ stream = "active"
    /\ delivered < MaxRunFrames
    /\ \E indata \in Frames, status \in BOOLEAN :
          IF use_advanced_audio THEN AudioCallback(indata, status)
          ELSE SimplifiedCallback(indata, status)

\* _audio_callback for a frame whose transform (np.fft.rfft) raises: the
\* frame and its rms are already appended, the gate did not return, and the
\* exception leaves the callback, which has no handler.  What the capture
\* library then does with the stream is not in this code: it goes on or ends.
AudioCallbackRaising(indata, status) ==
    LET buf == DequeAppend(audio_buffer, indata, AudioBufferMaxlen)
        current_frame == buf[Len(buf)]
        rms == Rms(current_frame)
        noise_floor == NoiseFloor(noise_floor_history, rms)
    IN  /\ ~NoiseGate(rms, noise_floor)
        /\ audio_buffer' = buf
        /\ noise_floor_history' =
              DequeAppend(noise_floor_history, rms, NoiseFloorMaxlen)
        /\ last' = [NoLocals EXCEPT !.path = "failed", !.raised = TRUE,
                                    !.counter_in = loud_counter, !.rms = rms,
                                    !.noise_floor = noise_floor,
                                    !.status = status, !.indata = indata]
        /\ delivered' = delivered + 1
        /\ probe' = NoProbe
        /\ stream' \in {"active", "aborted"}
        /\ UNCHANGED <<use_advanced_audio, centroid_history, onset_history,
                       loud_counter, loud, cfgVars, simpleVars, run, pc,
                       stale_ops, gameVars>>

\* SimplifiedAudioProcessor._callback for a frame whose transform raises
SimplifiedCallbackRaising(indata, status) ==
    /\ ~status
    /\ last' = [NoLocals EXCEPT !.path = "failed", !.raised = TRUE]
    /\ delivered' = delivered + 1
    /\ stream' \in {"active", "aborted"}
    /\ UNCHANGED <<use_advanced_audio, advVars, cfgVars, simpleVars, run, probe,
                   pc, stale_ops, gameVars>>

\* a callback in which the computation fails
RunFrameRaising ==
    /\ stream = "active"
    /\ delivered < MaxRunFrames
    /\ \E indata \in Frames, status \in BOOLEAN :
          IF use_advanced_audio THEN AudioCallbackRaising(indata, status)
          ELSE SimplifiedCallbackRaising(indata, status)

NextRun ==
    \/ PlayStart
    \/ PlayPoll
    \/ PlayQuit
    \/ PlayError
    \/ PlayFinally
    \/ RunFrame
    \/ RunFrameRaising

SpecRun == Init /\ [][NextRun]_vars

----------------------------------------------------------------------------
(* The methods of GameSessionManager and PlayerSession called directly, to *)
(* build sessions of several players.  probe holds the last call of        *)
(* move_to_next_player, with the manager it was called on, until the next  *)
(* call of another method.                                                 *)

\* everything but the session manager and probe
sessionRest == <<use_advanced_audio, advVars, cfgVars, simpleVars, last, run,
                 delivered, stream, pc, stale_ops, state, attempts_input,
                 username_input, selected_difficulty_index, score_value,
                 game_over_timer>>

\* start_new_session(max_attempts)
StartNewSessionCall ==
    /\ \E max_attempts \in 1..MaxSessionAttempts :
          session_manager' = StartNewSession(session_manager, max_attempts)
    /\ probe' = NoProbe
    /\ UNCHANGED sessionRest

\* add_player(username)
AddPlayerCall ==
    /\ Len(session_manager.players) < MaxPlayers
    /\ session_manager' = AddPlayer(session_manager, <<"A">>)
    /\ probe' = NoProbe
    /\ UNCHANGED sessionRest

\* record_score(0) on a player that has attempts left
RecordScoreCall ==
    /\ \E i \in 1..Len(session_manager.players) :
          /\ ~session_manager.players[i].is_complete
          /\ session_manager' =
                [session_manager EXCEPT !.players[i] = RecordScore(@, 0)]
    /\ probe' = NoProbe
    /\ UNCHANGED sessionRest

\* move_to_next_player()
MoveToNextPlayerCall ==
    LET result == MoveToNextPlayer(session_manager)
    IN  /\ session_manager' = result.manager
        /\ probe' = Call("move_to_next_player", [manager |-> session_manager],
                         [returned |-> result.returned, value |-> result.value,
                          steps |-> result.steps],
                         {}, {})
        /\ UNCHANGED sessionRest

NextSession ==
    \/ StartNewSessionCall
    \/ AddPlayerCall
    \/ RecordScoreCall
    \/ MoveToNextPlayerCall

SpecSession == Init /\ [][NextSession]_vars

----------------------------------------------------------------------------
(* The screens of NoisyBird.play: the KEYDOWN handlers and the per-frame   *)
(* updates of PLAYING and GAME_OVER.  Bird and obstacles are not modelled: *)
(* whether an obstacle is passed and whether the bird dies in a frame are  *)
(* inputs.  Keys are strings; a typed character is its own string.         *)

Keys == {"RETURN", "BACKSPACE", "SPACE", "UP", "DOWN", "a", "0", "2"}

\* str.isdigit of one typed character
IsDigit(key) == key \in {"0", "2"}

\* str.isalnum of one typed character
IsAlnum(key) == key \in {"a", "0", "2"}

\* str.upper of one typed character
Upper(key) == IF key = "a" THEN "A" ELSE key

\* text.isdigit(): false for the empty string
IsDigitString(text) ==
    text # <<>> /\ \A i \in 1..Len(text) : IsDigit(text[i])

\* int of one digit
DigitValue(key) == IF key = "2" THEN 2 ELSE 0

\* int(text) of a string of digits
RECURSIVE IntOf(_)
IntOf(text) ==
    IF text = <<>> THEN 0
    ELSE 10 * IntOf(SubSeq(text, 1, Len(text) - 1)) + DigitValue(text[Len(text)])

\* text[:-1]
DropLast(text) == SubSeq(text, 1, Len(text) - 1)

\* DifficultyManager.get_all_names()
DifficultyNames == <<"SLOW", "MEDIUM", "FAST", "GODLIKE">>

\* everything but the variables of the screens
gameRest == <<use_advanced_audio, advVars, cfgVars, simpleVars, last, run,
              delivered, probe, stream, pc, stale_ops>>

\* KEYDOWN in SPLASH_SCREEN
SplashScreenKeydown ==
    /\ pc = "loop" /\ state = "SPLASH_SCREEN"
    /\ \E key \in Keys :
          state' = IF key = "RETURN" THEN "SETUP_ATTEMPTS" ELSE state
    /\ UNCHANGED <<gameRest, session_manager, attempts_input, username_input,
                   selected_difficulty_index, score_value, game_over_timer>>

\* KEYDOWN in SETUP_ATTEMPTS
SetupAttemptsKeydown ==
    /\ pc = "loop" /\ state = "SETUP_ATTEMPTS"
    /\ \E key \in Keys :
          IF key = "RETURN"
          THEN LET typed == IF IsDigitString(attempts_input)
                            THEN IntOf(attempts_input) ELSE 3
                   attempts == Max(1, Min(9, typed))
               IN  /\ session_manager' =
                         StartNewSession(session_manager, attempts)
                   /\ state' = "USERNAME_INPUT"
                   /\ UNCHANGED attempts_input
          ELSE /\ attempts_input' =
                     IF key = "BACKSPACE" THEN DropLast(attempts_input)
                     ELSE IF IsDigit(key) /\ Len(attempts_input) < 1
                     THEN Append(attempts_input, key)
                     ELSE attempts_input
               /\ UNCHANGED <<session_manager, state>>
    /\ UNCHANGED <<gameRest, username_input, selected_difficulty_index,
                   score_value, game_over_timer>>

\* KEYDOWN in USERNAME_INPUT
UsernameInputKeydown ==
    /\ pc = "loop" /\ state = "USERNAME_INPUT"
    /\ \E key \in Keys :
          IF key = "RETURN" /\ Len(username_input) > 0
          THEN /\ session_manager' =
                     IF \/ session_manager.players = <<>>
                        \/ GetCurrentPlayer(session_manager).is_complete
                     THEN AddPlayer(session_manager, username_input)
                     ELSE session_manager
               /\ username_input' = <<>>
               /\ state' = "DIFFICULTY_SELECT"
          ELSE /\ username_input' =
                     IF key = "BACKSPACE" THEN DropLast(username_input)
                     ELSE IF /\ Len(username_input) < 10
                             /\ Len(username_input) < MaxNameLen
                             /\ IsAlnum(key)
                     THEN Append(username_input, Upper(key))
                     ELSE username_input
               /\ UNCHANGED <<session_manager, state>>
    /\ UNCHANGED <<gameRest, attempts_input, selected_difficulty_index,
                   score_value, game_over_timer>>

\* KEYDOWN in DIFFICULTY_SELECT; RETURN also runs reset_game()
DifficultySelectKeydown ==
    /\ pc = "loop" /\ state = "DIFFICULTY_SELECT"
    /\ \E key \in Keys :
          IF key = "RETURN"
          THEN /\ session_manager' =
                     [session_manager EXCEPT
                        !.players[session_manager.current_player_index + 1]
                            .difficulty =
                            DifficultyNames[selected_difficulty_index + 1]]
               /\ score_value' = 0
               /\ game_over_timer' = 0
               /\ state' = "WAITING"
               /\ UNCHANGED selected_difficulty_index
          ELSE /\ selected_difficulty_index' =
                     IF key = "UP" THEN Max(0, selected_difficulty_index - 1)
                     ELSE IF key = "DOWN"
                     THEN Min(Len(DifficultyNames) - 1,
                              selected_difficulty_index + 1)
                     ELSE selected_difficulty_index
               /\ UNCHANGED <<session_manager, score_value, game_over_timer,
                              state>>
    /\ UNCHANGED <<gameRest, attempts_input, username_input>>

\* KEYDOWN in WAITING
WaitingKeydown ==
    /\ pc = "loop" /\ state = "WAITING"
    /\ \E key \in Keys :
          state' = IF key = "SPACE" THEN "PLAYING" ELSE state
    /\ UNCHANGED <<gameRest, session_manager, attempts_input, username_input,
                   selected_difficulty_index, score_value, game_over_timer>>

\* one frame of PLAYING: score.add() when an obstacle is passed, GAME_OVER
\* when the bird hits an obstacle or the ground
PlayingFrame ==
    /\ pc = "loop" /\ state = "PLAYING"
    /\ \E passed \in BOOLEAN, dies \in BOOLEAN :
          /\ passed => score_value < MaxGameScore
          /\ score_value' = IF passed THEN score_value + 1 ELSE score_value
          /\ state' = IF dies THEN "GAME_OVER" ELSE state
          /\ game_over_timer' = IF dies THEN 0 ELSE game_over_timer
    /\ UNCHANGED <<gameRest, session_manager, attempts_input, username_input,
                   selected_difficulty_index>>

\* one frame of GAME_OVER
GameOverFrame ==
    /\ pc = "loop" /\ state = "GAME_OVER"
    /\ game_over_timer < MaxGameOverTimer
    /\ game_over_timer' = game_over_timer + 1
    /\ UNCHANGED <<gameRest, state, session_manager, attempts_input,
                   username_input, selected_difficulty_index, score_value>>

\* KEYDOWN in GAME_OVER
GameOverKeydown ==
    /\ pc = "loop" /\ state = "GAME_OVER"
    /\ \E key \in Keys :
          IF game_over_timer > 40 /\ key = "SPACE"
          THEN /\ session_manager' =
                     [session_manager EXCEPT
                        !.players[session_manager.current_player_index + 1] =
                            RecordScore(@, score_value)]
               /\ state' = "ATTEMPT_SUMMARY"
          ELSE UNCHANGED <<session_manager, state>>
    /\ UNCHANGED <<gameRest, attempts_input, username_input,
                   selected_difficulty_index, score_value, game_over_timer>>

\* KEYDOWN in ATTEMPT_SUMMARY; the first branch also runs reset_game()
AttemptSummaryKeydown ==
    /\ pc = "loop" /\ state = "ATTEMPT_SUMMARY"
    /\ \E key \in Keys :
          IF key # "SPACE"
          THEN UNCHANGED <<session_manager, state, score_value, game_over_timer>>
          ELSE IF GetRemainingAttempts(GetCurrentPlayer(session_manager)) > 0
          THEN /\ score_value' = 0
               /\ game_over_timer' = 0
               /\ state' = "WAITING"
               /\ UNCHANGED session_manager
          ELSE IF ~AllPlayersFinished(session_manager)
          THEN /\ session_manager' = MoveToNextPlayer(session_manager).manager
               /\ state' = "USERNAME_INPUT"
               /\ UNCHANGED <<score_value, game_over_timer>>
          ELSE /\ state' = "SESSION_LEADERBOARD"
               /\ UNCHANGED <<session_manager, score_value, game_over_timer>>
    /\ UNCHANGED <<gameRest, attempts_input, username_input,
                   selected_difficulty_index>>

\* KEYDOWN in SESSION_LEADERBOARD
SessionLeaderboardKeydown ==
    /\ pc = "loop" /\ state = "SESSION_LEADERBOARD"
    /\ \E key \in Keys :
          IF key = "SPACE"
          THEN attempts_input' = <<>> /\ state' = "SPLASH_SCREEN"
          ELSE UNCHANGED <<attempts_input, state>>
    /\ UNCHANGED <<gameRest, session_manager, username_input,
                   selected_difficulty_index, score_value, game_over_timer>>

NextGame ==
    \/ PlayStart
    \/ SplashScreenKeydown
    \/ SetupAttemptsKeydown
    \/ UsernameInputKeydown
    \/ DifficultySelectKeydown
    \/ WaitingKeydown
    \/ PlayingFrame
    \/ GameOverFrame
    \/ GameOverKeydown
    \/ AttemptSummaryKeydown
    \/ SessionLeaderboardKeydown

SpecGame == Init /\ [][NextGame]_vars

----------------------------------------------------------------------------
(* Claims *)

\* the newest frame of the AdvancedAudioProcessor
Newest == audio_buffer[Len(audio_buffer)]

\* the four sub-checks of the last classified frame, from its locals
LastRmsCheck == 2 * PercentileScale * last.rms > 3 * last.noise_floor
LastFreqCheck == 100 * last.band_ratio.num > 35 * last.band_ratio.den
LastCentroidCheck ==
    /\ last.centroid.num > 800 * last.centroid.den
    /\ last.centroid.num < 5000 * last.centroid.den
LastOnsetCheck ==
    100 * last.onset_strength.num > onset_threshold * last.onset_strength.den
LastChecksPassed ==
    {c \in {"rms", "freq", "centroid", "onset"} :
        \/ c = "rms" /\ LastRmsCheck
        \/ c = "freq" /\ LastFreqCheck
        \/ c = "centroid" /\ LastCentroidCheck
        \/ c = "onset" /\ LastOnsetCheck}

\* the debounce rule on the last classified frame: a true raw decision adds
\* one to the counter, a false one takes one off but never below zero, and
\* the result is counter >= 2
DebounceRuleHolds ==
    last.path = "decided" =>
        /\ last.is_loud => loud_counter = last.counter_in + 1
        /\ ~last.is_loud /\ last.counter_in > 0 =>
              loud_counter = last.counter_in - 1
        /\ ~last.is_loud /\ last.counter_in = 0 => loud_counter = 0
        /\ loud = (loud_counter >= 2)

\* C1 as claimed: the debounce rule holds for every frame that reaches the
\* decision engine, and the raw decisions true, true, false, false after a
\* reset give the counters 1, 2, 1, 0 and the results false, true, true,
\* false.
C1_ClaimedTrace ==
    /\ DebounceRuleHolds
    /\ run = <<TRUE>> => loud_counter = 1 /\ ~loud
    /\ run = <<TRUE, TRUE>> => loud_counter = 2 /\ loud
    /\ run = <<TRUE, TRUE, FALSE>> => loud_counter = 1 /\ loud
    /\ run = <<TRUE, TRUE, FALSE, FALSE>> => loud_counter = 0 /\ ~loud

\* C1 amended: the debounce rule holds for every frame that reaches the
\* decision engine, and the raw decisions true, true, false, false after a
\* reset give the counters 1, 2, 1, 0 and the results false, true, false,
\* false: the third result is false because its counter, 1, is below 2.
C1_DebounceRule ==
    /\ DebounceRuleHolds
    /\ run = <<TRUE>> => loud_counter = 1 /\ ~loud
    /\ run = <<TRUE, TRUE>> => loud_counter = 2 /\ loud
    /\ run = <<TRUE, TRUE, FALSE>> => loud_counter = 1 /\ ~loud
    /\ run = <<TRUE, TRUE, FALSE, FALSE>> => loud_counter = 0 /\ ~loud

C1_Witness ==
    /\ run = <<TRUE, TRUE, FALSE, FALSE>>
    /\ last.path = "decided" /\ last.counter_in = 1
    /\ loud_counter = 0 /\ ~loud

\* C2 as claimed: a frame stopped by the noise gate is a false raw decision
\* fed to the debouncer: the counter goes down by one (not below zero) and the
\* result is counter >= 2.
C2_GateIsFalseDecision ==
    last.path = "gated" =>
        /\ loud_counter = Max(0, last.counter_in - 1)
        /\ loud = (loud_counter >= 2)

\* C2 amended: a frame stopped by the noise gate resets the debouncer: whatever
\* the counter was, it is 0 afterwards and the result is false.
C2_GateResets ==
    last.path = "gated" => loud_counter = 0 /\ ~loud

C2_Witness ==
    last.path = "gated" /\ last.counter_in = 3 /\ loud_counter = 0 /\ ~loud

\* C3: once the newest frame is all-zero the result is false (so it is false
\* after at most two all-zero frames and stays false while they last), from
\* any counter and any rms history; such a frame returns at the gate or at the
\* zero-energy test, before any division.
C3_SilentFramesQuiet ==
    use_advanced_audio /\ delivered > 0 /\ Newest = Silence =>
        /\ ~loud
        /\ last.path \in {"gated", "zero"}

C3_Witness ==
    /\ use_advanced_audio /\ delivered > 0 /\ Newest = Silence
    /\ last.counter_in = 3 /\ ~loud

\* the sub-checks the arguments of the probed call of _make_decision pass
ProbeChecksPassed ==
    {c \in {"rms", "freq", "centroid", "onset"} :
        \/ c = "rms" /\ 2 * PercentileScale * probe.args.rms
                            > 3 * probe.args.noise_floor
        \/ c = "freq" /\ 100 * probe.args.band_ratio.num
                            > 35 * probe.args.band_ratio.den
        \/ c = "centroid" /\ probe.args.centroid.num
                                > 800 * probe.args.centroid.den
                          /\ probe.args.centroid.num
                                < 5000 * probe.args.centroid.den
        \/ c = "onset" /\ 100 * probe.args.onset_strength.num
                            > onset_threshold * probe.args.onset_strength.den}

\* C4: for all values of the four sub-checks, _make_decision returns true
\* exactly when the onset check and the frequency check both pass or at least
\* three of the four checks pass.
C4_DecisionFusion ==
    probe.called =>
        (probe.value <=>
            \/ {"onset", "freq"} \subseteq ProbeChecksPassed
            \/ Cardinality(ProbeChecksPassed) >= 3)

\* the fast path decides: only the onset and the frequency check pass
C4_Witness ==
    /\ probe.called /\ probe.value
    /\ ProbeChecksPassed = {"freq", "onset"}

\* C5: one passed check alone never gives a detection, and a loud low rumble
\* (rms check passed, frequency and centroid checks failed) is classified
\* false whatever the onset check says.
C5_NoSingleFeature ==
    probe.called =>
        /\ Cardinality(ProbeChecksPassed) = 1 => ~probe.value
        /\ "rms" \in ProbeChecksPassed
              /\ ProbeChecksPassed \cap {"freq", "centroid"} = {}
           => ~probe.value

\* the band ratio and centroid of a 108 Hz tone, with rms above the gate and
\* a sharp onset
C5_Witness ==
    /\ probe.called /\ ~probe.value
    /\ probe.args.band_ratio = BandRatio(Rumble)
    /\ probe.args.centroid = CalculateSpectralCentroid(Magnitude(Rumble))
    /\ probe.args.rms = Rms(Rumble)
    /\ ProbeChecksPassed = {"rms", "onset"}

\* C6: the pipeline starts with counter 0 and result false, and after every
\* frame the counter is not negative and the result is counter >= 2.
C6_DebounceInvariant ==
    /\ delivered = 0 => loud_counter = 0 /\ ~loud
    /\ loud_counter >= 0
    /\ loud = (loud_counter >= loud_threshold)
    /\ loud_threshold = 2

C6_Witness ==
    last.path = "decided" /\ ~last.is_loud /\ loud_counter = 2 /\ loud

\* h2 is h after deque(maxlen=cap).append(x): below capacity x is added at the
\* end; at capacity the oldest element goes, the others move up in order
Appended(h, h2, x, cap) ==
    IF Len(h) < cap THEN h2 = Append(h, x)
    ELSE /\ Len(h2) = cap
         /\ h2[cap] = x
         /\ \A i \in 1..(cap - 1) : h2[i] = h[i + 1]

C7_Lengths ==
    /\ Len(noise_floor_history) <= 100
    /\ Len(centroid_history) <= 10
    /\ Len(onset_history) <= 8
    /\ Len(audio_buffer) <= 4
    /\ Len(s_history) <= 3

C7_Appends ==
    /\ use_advanced_audio /\ delivered' = delivered + 1 =>
          /\ Appended(audio_buffer, audio_buffer',
                      audio_buffer'[Len(audio_buffer')], 4)
          /\ Appended(noise_floor_history, noise_floor_history', last'.rms, 100)
          /\ IF last'.path = "decided"
             THEN /\ Appended(centroid_history, centroid_history',
                              last'.centroid, 10)
                  /\ Appended(onset_history, onset_history',
                              last'.onset_strength, 8)
             ELSE UNCHANGED <<centroid_history, onset_history>>
    /\ ~use_advanced_audio /\ delivered' = delivered + 1 =>
          IF last'.path = "classified"
          THEN Appended(s_history, s_history', last'.is_loud, 3)
          ELSE UNCHANGED s_history

\* C7: the rolling histories are bounded FIFOs: at most 100 rms values, 10
\* centroids, 8 onset strengths, 4 frames and (SimplifiedAudioProcessor) 3 raw
\* decisions are kept, and every append to a full history drops exactly the
\* oldest element and keeps the others in arrival order.
C7_BoundedFifos == []C7_Lengths /\ [][C7_Appends]_vars

\* every history of the AdvancedAudioProcessor is full, and the rms values of
\* the ambient frames that opened the stream have been dropped
C7_Witness ==
    /\ use_advanced_audio
    /\ delivered > 100 /\ Len(noise_floor_history) = 100
    /\ Len(centroid_history) = 10 /\ Len(onset_history) = 8
    /\ Len(audio_buffer) = 4
    /\ \A i \in 1..100 : noise_floor_history[i] = Rms(Voice)

\* the ten ascending rms values 1, 2, ..., 10 (0.001 ... 0.010 in rms units)
TenAscending == [k \in 1..10 |-> Rms(Tone(k))]

\* the number of values of h that are below, or not above, v / PercentileScale
Below(h, v) == Cardinality({i \in DOMAIN h : PercentileScale * h[i] < v})
NotAbove(h, v) == Cardinality({i \in DOMAIN h : PercentileScale * h[i] <= v})

\* C8: the floor used for a frame is the 10th percentile of the rms history
\* taken after the frame's own rms was appended: the history is then not
\* empty, a single sample is its own floor, the floor lies between the
\* minimum and the maximum of the history with at most a tenth of the other
\* samples below it, and for the ten ascending values it lies between the
\* smallest and the second smallest.
C8_NoiseFloor ==
    use_advanced_audio /\ delivered > 0 =>
        LET h == noise_floor_history
            n == Len(h)
            floor == last.noise_floor
        IN  /\ n > 0
            /\ h[n] = last.rms
            /\ floor = Percentile(h, 10)
            /\ n = 1 => floor = PercentileScale * h[1]
            /\ \E i \in 1..n : PercentileScale * h[i] <= floor
            /\ \E i \in 1..n : PercentileScale * h[i] >= floor
            /\ 10 * Below(h, floor) <= (n - 1) + 10
            /\ 10 * NotAbove(h, floor) > n - 1
            /\ h = TenAscending =>
                  /\ floor >= PercentileScale * h[1]
                  /\ floor <= PercentileScale * h[2]

C8_Witness ==
    /\ use_advanced_audio
    /\ noise_floor_history = TenAscending
    /\ 10 * last.noise_floor = 19 * PercentileScale * Rms(Tone(1))

\* value is current energy / previous energy up to the epsilon in the divisor
OnsetRatio(value, buf) ==
    LET cur == Energy(buf[Len(buf)])
        prev == Energy(buf[Len(buf) - 1])
    IN  /\ value.num = cur
        /\ prev <= value.den /\ value.den <= prev + Epsilon
        /\ cur = prev =>
              /\ 1000 * (value.den - value.num) <= value.den
              /\ value.num <= value.den
        /\ cur = 3 * prev =>
              /\ 1000 * (3 * value.den - value.num) <= 3 * value.den
              /\ value.num <= 3 * value.den

\* C9: with a previous frame of positive energy _calculate_onset_strength
\* returns current energy / previous energy up to the epsilon (within a
\* thousandth of 1.0 for equal energies and of 3.0 for a tripled energy), and
\* with no previous frame it returns 0; this holds for a direct call and for
\* the value the pipeline records.
C9_OnsetRatio ==
    /\ probe.called =>
          /\ Len(audio_buffer) < 2 => probe.value = Zero
          /\ Len(audio_buffer) >= 2
             /\ Energy(audio_buffer[Len(audio_buffer) - 1]) > 0 =>
                OnsetRatio(probe.value, audio_buffer)
    /\ last.path = "decided"
       /\ Len(audio_buffer) >= 2
       /\ Energy(audio_buffer[Len(audio_buffer) - 1]) > 0 =>
          /\ OnsetRatio(last.onset_strength, audio_buffer)
          /\ onset_history[Len(onset_history)] = last.onset_strength

\* a direct call after three frames, the newest with three times the energy of
\* the one before it
C9_Witness ==
    /\ probe.called
    /\ Len(audio_buffer) = 3
    /\ Energy(Newest) = 3 * Energy(audio_buffer[2])
    /\ Energy(audio_buffer[2]) > 0 /\ Energy(audio_buffer[1]) # Energy(audio_buffer[2])
    /\ 3 * probe.value.den - probe.value.num = 3 * Epsilon

\* C10 as claimed: whenever a previous frame exists the onset ratio is current
\* energy / (previous energy + epsilon), also after an all-zero frame, so a
\* frame of positive energy that follows an all-zero frame passes the onset
\* check, and 0 is returned only when there is no previous frame.
C10_RatioAfterSilence ==
    last.path = "decided" /\ Len(audio_buffer) >= 2 =>
        LET cur == Energy(Newest)
            prev == Energy(audio_buffer[Len(audio_buffer) - 1])
        IN  /\ last.onset_strength.num = cur
            /\ last.onset_strength.den = prev + Epsilon
            /\ prev = 0 /\ cur > 0 => LastOnsetCheck

\* a step in which the consumer called op
Called(op) == probe'.op = op /\ probe' # probe

\* C11: set_sensitivity(s) stores min(1, max(0, s)) and sets onset_threshold
\* to 2.0 - 0.5 * sensitivity, which lies in [1.5, 2.0] and does not rise when
\* s rises from one call to the next; nothing but the configuration scalars
\* changes.
C11_Step ==
    Called("set_sensitivity") =>
        /\ sensitivity' = Min(100, Max(0, probe'.args.sensitivity))
        /\ 100 * onset_threshold' = 20000 - 50 * sensitivity'
        /\ onset_threshold' \in 150..200
        /\ probe.op = "set_sensitivity"
              /\ probe.args.sensitivity <= probe'.args.sensitivity
           => onset_threshold' <= onset_threshold
        /\ UNCHANGED <<advVars, simpleVars, last, run, delivered>>

C11_SetSensitivity == [][C11_Step]_vars

\* an argument above 1 was clamped, with a sound being detected
C11_Witness ==
    /\ probe.op = "set_sensitivity" /\ probe.args.sensitivity = 150
    /\ sensitivity = 100 /\ onset_threshold = 150
    /\ centroid_history # <<>> /\ loud_counter > 0

\* C12: in every state of an AdvancedAudioProcessor, from its construction
\* on, sensitivity is in [0, 1] and onset_threshold = 2.0 - 0.5 * sensitivity.
C12_ThresholdFollowsSensitivity ==
    use_advanced_audio =>
        /\ sensitivity \in 0..100
        /\ 100 * onset_threshold = 20000 - 50 * sensitivity

\* C13: is_loud() and get_debug_info() change no field of the pipeline, and
\* clearing the lists of the returned snapshot changes no history.
C13_Step ==
    Called("is_loud") \/ Called("get_debug_info") \/ Called("snapshot cleared")
        => UNCHANGED <<advVars, cfgVars, simpleVars>>

C13_ReadOnlyObservers == [][C13_Step]_vars

\* the snapshot was cleared and the histories still hold their values
C13_Witness ==
    /\ probe.op = "snapshot cleared"
    /\ probe.value.centroid_history.items = <<>>
    /\ probe.value.onset_history.items = <<>>
    /\ centroid_history # <<>> /\ onset_history # <<>>

\* C14: stop() does nothing when no stream was stored, and a second stop()
\* makes no further stop or close call on the stream the first one closed.
C14_StopIdempotent == stale_ops = 0

\* C15: on every way out of the application, a capture stream that was opened
\* has been closed when the program has exited.
C15_StreamReleased == pc = "exited" => stream \in {"none", "closed"}

\* what _process_audio leaves for frame f delivered after frame prev (or as
\* the first frame), computed from f, prev and the state before, with no
\* regard to the status flag
C16_Expected(f, first, prev) ==
    LET rms == Rms(f)
        noise_floor == NoiseFloor(noise_floor_history, rms)
        onset == IF first \/ Energy(prev) = 0 THEN Zero
                 ELSE [num |-> Energy(f), den |-> Energy(prev) + Epsilon]
        centroid == CalculateSpectralCentroid(Magnitude(f))
        decision == MakeDecision(rms, noise_floor, BandRatio(f), centroid,
                                 onset, onset_threshold)
        rejected == NoiseGate(rms, noise_floor) \/ Energy(f) = 0
    IN  [audio_buffer |-> DequeAppend(audio_buffer, f, AudioBufferMaxlen),
         noise_floor_history |->
             DequeAppend(noise_floor_history, rms, NoiseFloorMaxlen),
         centroid_history |->
             IF rejected THEN centroid_history
             ELSE DequeAppend(centroid_history, centroid, CentroidMaxlen),
         onset_history |->
             IF rejected THEN onset_history
             ELSE DequeAppend(onset_history, onset, OnsetMaxlen),
         loud_counter |->
             IF rejected THEN 0 ELSE Debounce(loud_counter, decision).loud_counter,
         loud |-> IF rejected THEN FALSE ELSE Debounce(loud_counter, decision).loud]

\* C16: a callback of the AdvancedAudioProcessor, flagged with a status or
\* not, updates the pipeline as the frame alone determines, and the onset
\* strength compares the frame with the one delivered immediately before it,
\* whatever happened to that one.
C16_Step ==
    use_advanced_audio /\ delivered' = delivered + 1 =>
        LET expected == C16_Expected(last'.indata, delivered = 0, last.indata)
        IN  /\ audio_buffer' = expected.audio_buffer
            /\ noise_floor_history' = expected.noise_floor_history
            /\ centroid_history' = expected.centroid_history
            /\ onset_history' = expected.onset_history
            /\ loud_counter' = expected.loud_counter
            /\ loud' = expected.loud

C16_FlaggedFramesProcessed == [][C16_Step]_vars

\* a flagged frame was classified as a sound by its onset against the frame
\* before it, which the noise gate had rejected
C16_Witness ==
    /\ last.status /\ last.path = "decided" /\ last.is_loud
    /\ audio_buffer = <<Ambient, Ambient, Voice>>
    /\ last.onset_strength =
          [num |-> Energy(Voice), den |-> Energy(Ambient) + Epsilon]
    /\ loud_counter = 1

\* C17: a callback of the SimplifiedAudioProcessor flagged with a status
\* classifies the frame, appends its decision to the history and recomputes
\* loud, as for the same frame without status.
C17_FlaggedFramesClassified ==
    ~use_advanced_audio /\ delivered > 0 /\ last.status =>
        last.path = "classified"

\* the attributes only the capture callback may touch
CallbackOnly ==
    {"loud_counter", "audio_buffer", "noise_floor_history",
     "centroid_history", "onset_history"}

\* C18: loud and loud_counter are assigned only by the callback, and no
\* operation the consumer can call (is_loud, get_debug_info, set_sensitivity)
\* reads or assigns the histories or the counter of a processor whose
\* callback is being delivered.
C18_SingleWriterSingleReader ==
    delivered > 0
        /\ probe.op \in {"is_loud", "get_debug_info", "set_sensitivity"} =>
        /\ probe.writes \cap {"loud", "loud_counter"} = {}
        /\ (probe.reads \cup probe.writes) \cap CallbackOnly = {}

\* C19: a processor constructed with a sensitivity outside [0, 1] is rejected,
\* so no frame is ever processed under such a configuration.
C19_ConfigurationValidated == delivered > 0 => sensitivity \in 0..100

\* C20: when the computation for a frame fails, no exception leaves the
\* callback and the frame counts as a degenerate one: not loud.
C20_FailureContained ==
    last.path = "failed" =>
        /\ ~last.raised
        /\ use_advanced_audio => ~loud /\ loud_counter = 0

\* frame f, delivered now, has rms below 1.5 times the floor of the rms
\* history with its own rms in it, or has no energy at all
C21_Rejected(f) ==
    \/ 2 * PercentileScale * Rms(f)
          < 3 * Percentile(DequeAppend(noise_floor_history, Rms(f),
                                       NoiseFloorMaxlen), 10)
    \/ Energy(f) = 0

\* C21: a gated or zero-energy frame appends its samples to audio_buffer and
\* its rms to noise_floor_history, sets loud_counter to 0 and loud to false,
\* and leaves centroid_history, onset_history, the sensitivity and the
\* thresholds as they were.
C21_Step ==
    use_advanced_audio /\ delivered' = delivered + 1
        /\ C21_Rejected(last'.indata) =>
        /\ Appended(audio_buffer, audio_buffer', last'.indata, 4)
        /\ Appended(noise_floor_history, noise_floor_history',
                    Rms(last'.indata), 100)
        /\ loud_counter' = 0 /\ ~loud'
        /\ UNCHANGED <<centroid_history, onset_history, cfgVars>>

C21_RejectedFrameEffect == [][C21_Step]_vars

\* a frame was gated after a classified one: the counter went from 1 to 0 and
\* the features of the classified frame are still the newest recorded
C21_Witness ==
    /\ last.path = "gated" /\ last.counter_in = 1 /\ loud_counter = 0
    /\ audio_buffer = <<Ambient, Voice, Ambient>>
    /\ noise_floor_history = <<Rms(Ambient), Rms(Voice), Rms(Ambient)>>
    /\ Len(centroid_history) = 1 /\ Len(onset_history) = 1

\* C22: whenever the SimplifiedAudioProcessor reports loud after a frame, the
\* raw decisions of that frame and of the frame before it are both true.
C22_TwoConsecutiveLoudFrames ==
    ~use_advanced_audio /\ last.path = "classified" /\ s_loud =>
        /\ Len(s_history) >= 2
        /\ s_history[Len(s_history)]
        /\ s_history[Len(s_history) - 1]

\* C26: a frame that reaches _make_decision has rms >= 1.5 * noise_floor, and
\* when its rms is strictly above that margin the decision is true exactly
\* when at least two of the frequency, centroid and onset checks pass.
C26_RmsCheckDecidedByGate ==
    last.path = "decided" =>
        /\ 2 * PercentileScale * last.rms >= 3 * last.noise_floor
        /\ 2 * PercentileScale * last.rms > 3 * last.noise_floor =>
              (last.is_loud <=>
                  Cardinality(LastChecksPassed \ {"rms"}) >= 2)

\* rms strictly above the margin, no fast path: centroid and onset pass, the
\* frequency check fails, the decision is true
C26_Witness ==
    /\ last.path = "decided" /\ last.is_loud
    /\ 2 * PercentileScale * last.rms > 3 * last.noise_floor
    /\ LastChecksPassed = {"rms", "centroid", "onset"}

\* every value of the rms history, the newest included, is the same
C27_NoContrast ==
    \A i \in DOMAIN noise_floor_history :
        noise_floor_history[i] = noise_floor_history[1]

\* C27: when all values of the rms history are equal, as on the first frame
\* of a stream, the frame is rejected before classification and the counter
\* is 0; is_loud() is false after each of the first two frames.
C27_NoDetectionWithoutContrast ==
    use_advanced_audio /\ delivered > 0 =>
        /\ C27_NoContrast =>
              last.path \in {"gated", "zero"} /\ loud_counter = 0
        /\ delivered <= 2 => ~loud

\* two different sounds of the same rms: the second one is gated
C27_Witness ==
    /\ delivered = 2 /\ audio_buffer = <<Hum, Voice>>
    /\ C27_NoContrast /\ last.path = "gated" /\ ~loud

\* C28: every snapshot get_debug_info() returns, also one taken while the
\* callback is in the middle of a frame, has is_loud = (loud_counter >= 2).
C28_ConsistentSnapshot ==
    probe.op = "get_debug_info" =>
        (probe.value.is_loud <=> probe.value.loud_counter >= 2)

\* C24: for every score and preset the speed is at most MAX_OBSTACLE_SPEED,
\* the gap at least MIN_GAP and the horizontal distance at least
\* MIN_HORIZONTAL_DISTANCE.
C24_DifficultyWithinLimits ==
    probe.op = "calculate_difficulty_params" =>
        /\ probe.value.speed <= 750
        /\ probe.value.gap >= 140
        /\ probe.value.horizontal_distance >= 280

\* C25: for one preset and scores s1 <= s2, the speed at s2 is not lower, the
\* gap and the horizontal distance not larger than at s1.
C25_Step ==
    /\ probe.op = "calculate_difficulty_params"
    /\ Called("calculate_difficulty_params")
    /\ probe.args.difficulty = probe'.args.difficulty
    /\ probe.args.score <= probe'.args.score
    => /\ probe.value.speed <= probe'.value.speed
       /\ probe.value.gap >= probe'.value.gap
       /\ probe.value.horizontal_distance >= probe'.value.horizontal_distance

C25_DifficultyNeverEasier == [][C25_Step]_vars

\* C29: move_to_next_player returns. With no players it returns false and
\* changes nothing; with a current player that is not complete it returns
\* true and changes nothing; otherwise it moves current_player_index to the
\* first not-complete player after the current one, cyclically, and returns
\* true; and when all players are complete it returns false after at most
\* len(players) iterations with session_active false.
C29_MoveToNextPlayerTerminates ==
    probe.op = "move_to_next_player" =>
        LET before == probe.args.manager
            n == Len(before.players)
            idx == before.current_player_index
            Offsets == {d \in 1..n :
                           ~before.players[((idx + d) % n) + 1].is_complete}
            first == CHOOSE d \in Offsets : \A e \in Offsets : d <= e
        IN  /\ probe.value.returned
            /\ session_manager.players = before.players
            /\ IF n = 0
               THEN ~probe.value.value /\ session_manager = before
               ELSE IF ~before.players[idx + 1].is_complete
               THEN probe.value.value /\ session_manager = before
               ELSE IF Offsets # {}
               THEN /\ probe.value.value
                    /\ session_manager.current_player_index = (idx + first) % n
                    /\ session_manager.session_active = before.session_active
               ELSE /\ ~probe.value.value
                    /\ probe.value.steps <= n
                    /\ ~session_manager.session_active

\* a call that found the next player behind a complete current player
C29_Witness ==
    /\ probe.op = "move_to_next_player"
    /\ probe.value.value
    /\ Len(session_manager.players) >= 3
    /\ session_manager.current_player_index
           > probe.args.manager.current_player_index + 1

\* C23: when a player has used all attempts, the session can continue with
\* another player: the 'next player' branch of ATTEMPT_SUMMARY (players not
\* all finished) is open.
C23_NextPlayerAvailable ==
    /\ state = "ATTEMPT_SUMMARY"
    /\ GetRemainingAttempts(GetCurrentPlayer(session_manager)) <= 0
    => ~AllPlayersFinished(session_manager)

\* no session of the game holds a second player, and USERNAME_INPUT is
\* entered with no player only
OnePlayerPerSession ==
    /\ Len(session_manager.players) <= 1
    /\ state = "USERNAME_INPUT" => session_manager.players = <<>>

\* max(scores), 0 when there are none (scores are not negative)
RECURSIVE MaxOf(_)
MaxOf(scores) ==
    IF scores = <<>> THEN 0
    ELSE Max(scores[Len(scores)], MaxOf(SubSeq(scores, 1, Len(scores) - 1)))

\* the accounting of one player
Accounted(player) ==
    /\ Len(player.scores) = player.current_attempt
    /\ player.current_attempt <= player.max_attempts
    /\ GetRemainingAttempts(player) >= 0
    /\ player.is_complete = (player.current_attempt >= player.max_attempts)
    /\ player.best_score = MaxOf(player.scores)

\* the scores of all players, in order
AllScores == [i \in 1..Len(session_manager.players) |->
                 session_manager.players[i].scores]

C30_Step ==
    /\ state = "GAME_OVER" /\ state' = "ATTEMPT_SUMMARY"
       => /\ Len(session_manager'.players) = Len(session_manager.players)
          /\ GetCurrentPlayer(session_manager').scores =
                Append(GetCurrentPlayer(session_manager).scores, score_value)
          /\ \A i \in 1..Len(session_manager.players) :
                i # session_manager.current_player_index + 1
                => session_manager'.players[i] = session_manager.players[i]
    /\ state' = "ATTEMPT_SUMMARY" /\ state # "ATTEMPT_SUMMARY"
       => state = "GAME_OVER"
    /\ ~(state = "GAME_OVER" /\ state' = "ATTEMPT_SUMMARY")
       => \/ AllScores' = AllScores
          \/ \A i \in 1..Len(session_manager'.players) :
                session_manager'.players[i].scores = <<>>

\* C30: every finished attempt (PLAYING, GAME_OVER, ATTEMPT_SUMMARY) records
\* exactly one score, no other step records one, and every player always has
\* len(scores) = current_attempt <= max_attempts, remaining attempts >= 0,
\* is_complete = (current_attempt >= max_attempts) and best_score = max of
\* the scores (0 when none).
C30_AttemptAccounting ==
    /\ [](\A i \in 1..Len(session_manager.players) :
             Accounted(session_manager.players[i]))
    /\ [][C30_Step]_vars

\* a player who used both attempts, the better score first
C30_Witness ==
    /\ state = "ATTEMPT_SUMMARY"
    /\ GetCurrentPlayer(session_manager).scores = <<1, 0>>
    /\ GetCurrentPlayer(session_manager).is_complete
====
